---- MODULE Spec2Model ----
(***************************************************************************)
(* acs_student_attendance: the log parser (log_parser.py) and the          *)
(* attendance analysis (analysis.py) as a state machine.                   *)
(*                                                                         *)
(* A calendar date is its proleptic Gregorian ordinal (date.toordinal()),  *)
(* a time of day is its number of seconds since midnight, a timedelta is   *)
(* a number of seconds (or of days where it is added to a date).           *)
(***************************************************************************)
EXTENDS Integers, Sequences, FiniteSets, TLC

VARIABLES
    pc,                  \* "new", "constructed", "analyzing", "done", "failed"
    semester_config_file,\* the YAML document the constructor is given
    semester_config,     \* self.semester_config
    parsers,             \* the StudentAuthLogParser objects: instance attributes
    analysis,            \* the StudentAttendanceAnalysis object built last
    n_constructed,       \* how many StudentAttendanceAnalysis were constructed
    _weekday_terms,      \* cache of the weekday_terms property
    _semester_weeks,     \* cache of the semester_weeks property
    student_attendance,  \* analyze(): course -> student -> attendance list
    consumed,            \* the set of log lines read so far
    n_read,              \* how many log lines were read so far
    last_line,           \* the log line read last
    last_login,          \* what the pipeline made of it
    diagnostics,         \* the 'Unknown line found while parsing' output
    error,               \* the exception that ended the run, "" if none
    results              \* the Databook analyze() returns

vars == <<pc, semester_config_file, semester_config, parsers, analysis,
          n_constructed, _weekday_terms, _semester_weeks, student_attendance,
          consumed, n_read, last_line, last_login, diagnostics, error, results>>

-----------------------------------------------------------------------------
(* Bounds *)

\* The number of log lines one run reads.
MaxLog == 2

\* The number of parser objects a caller holds and may hand to constructors.
NumParsers == 2

\* The number of StudentAttendanceAnalysis objects constructed in a row.
MaxAnalyses == 3

-----------------------------------------------------------------------------
(* datetime: the calendar arithmetic of the standard library, as used by   *)
(* weeknumber(), dt.year, dt.isoweekday() and date + timedelta(days=7).    *)

IsLeap(y) == (y % 4 = 0) /\ ((y % 100 /= 0) \/ (y % 400 = 0))

DaysBeforeYear(y) ==
    (y - 1) * 365 + ((y - 1) \div 4) - ((y - 1) \div 100) + ((y - 1) \div 400)

DaysBeforeMonth(y, m) ==
    <<0, 31, 59, 90, 120, 151, 181, 212, 243, 273, 304, 334>>[m]
        + (IF m > 2 /\ IsLeap(y) THEN 1 ELSE 0)

\* date(y, m, d).toordinal()
Ymd2Ord(y, m, d) == DaysBeforeYear(y) + DaysBeforeMonth(y, m) + d

\* date.year of the date with ordinal n
YearOf(n) ==
    LET guess == ((n * 400) \div 146097) + 1
    IN  IF n <= DaysBeforeYear(guess) THEN guess - 1
        ELSE IF n > DaysBeforeYear(guess + 1) THEN guess + 1
        ELSE guess

\* date.isoweekday(): 1 = Monday .. 7 = Sunday
IsoWeekday(n) == ((n + 6) % 7) + 1

\* The ordinal of the Monday of ISO week 1 of year y.
IsoWeek1Monday(y) ==
    LET firstday == Ymd2Ord(y, 1, 1)
        firstweekday == (firstday + 6) % 7
        week1monday == firstday - firstweekday
    IN  IF firstweekday > 3 THEN week1monday + 7 ELSE week1monday

\* date.isocalendar()[0:2]: <<ISO year, ISO week number>>
IsoCalendar(n) ==
    LET year == YearOf(n)
        w1 == IsoWeek1Monday(year)
    IN  IF n < w1
        THEN <<year - 1, ((n - IsoWeek1Monday(year - 1)) \div 7) + 1>>
        ELSE IF (n - w1) \div 7 >= 52 /\ n >= IsoWeek1Monday(year + 1)
        THEN <<year + 1, 1>>
        ELSE <<year, ((n - w1) \div 7) + 1>>

\* analysis.py weeknumber(dt)
weeknumber(dt) == IsoCalendar(dt)[2]

SecondsPerDay == 24 * 60 * 60

\* A time of day, from hours, minutes and seconds.
Hms(h, m, s) == (h * 60 + m) * 60 + s

-----------------------------------------------------------------------------
(* The semester configuration (the YAML document handed to the             *)
(* constructor). A schedule term "HH:MM-HH:MM" is the sequence of the      *)
(* tokens term.split('-') yields, each token <<HH, MM>>.                   *)

Term(h1, m1, h2, m2) == << <<h1, m1>>, <<h2, m2>> >>

\* Two overlapping Monday labs, and a Tuesday lab that starts two minutes
\* after midnight.
CoursesGood ==
    [ CS101 |-> [ teacher |-> "T1",
                  weekly_lab_schedule |-> [ Monday |-> << Term(9, 0, 10, 0) >> ] ],
      CS102 |-> [ teacher |-> "T2",
                  weekly_lab_schedule |->
                      [ monday  |-> << Term(9, 30, 10, 30) >>,
                        Tuesday |-> << Term(0, 2, 1, 0) >> ] ] ]

\* The same, with a Tuesday term of one time token ("00:02") ...
CoursesOneToken ==
    [ CoursesGood EXCEPT !.CS102.weekly_lab_schedule.Tuesday = << << <<0, 2>> >> >> ]

\* ... and of three ("00:02-01:00-02:00").
CoursesThreeTokens ==
    [ CoursesGood EXCEPT !.CS102.weekly_lab_schedule.Tuesday =
        << << <<0, 2>>, <<1, 0>>, <<2, 0>> >> >> ]

IsWellFormedCourses(courses) ==
    \A c \in DOMAIN courses :
        \A wd \in DOMAIN courses[c].weekly_lab_schedule :
            \A i \in DOMAIN courses[c].weekly_lab_schedule[wd] :
                Len(courses[c].weekly_lab_schedule[wd][i]) = 2

\* <<start_date, end_date>> of the semesters: a Monday start, a Wednesday
\* start, a semester across the turn of the year, and the March semester
\* of the override example.
Semesters ==
    { <<Ymd2Ord(2024, 1, 8),   Ymd2Ord(2024, 1, 21)>>,
      <<Ymd2Ord(2024, 1, 10),  Ymd2Ord(2024, 1, 23)>>,
      <<Ymd2Ord(2024, 12, 23), Ymd2Ord(2025, 1, 5)>>,
      <<Ymd2Ord(2024, 3, 11),  Ymd2Ord(2024, 3, 24)>> }

Override(completed_on, holiday_date) ==
    [completed_on |-> completed_on, holiday_date |-> holiday_date]

\* The schedule_overrides lists tried for a semester that starts on `start`:
\* none; the second Monday done on the first Tuesday; two overrides of the
\* same completed_on date; the second Monday done on a date before the
\* semester.
OverrideLists(start) ==
    { << >>,
      << Override(start + 7, start + 1) >>,
      << Override(start + 7, start + 1), Override(start + 7, start + 8) >>,
      << Override(start + 7, start - 6) >> }

Spreads == {0, 5 * 60}

SemesterConfig(sem, overrides, courses, spread) ==
    [ semester |-> [ start_date |-> sem[1], end_date |-> sem[2],
                     schedule_overrides |-> overrides ],
      courses |-> courses,
      extra_settings |-> [ student_login_time_spread |-> spread ] ]

\* The configurations of the model: every semester with the well-formed
\* courses, and the malformed ones on the first semester.
ConfigFiles ==
    { SemesterConfig(sem, ov, CoursesGood, d) :
        sem \in Semesters, ov \in { << >> }, d \in Spreads }
    \cup
    { SemesterConfig(sem, ov, CoursesGood, 0) :
        sem \in { <<Ymd2Ord(2024, 3, 11), Ymd2Ord(2024, 3, 24)>> },
        ov \in OverrideLists(Ymd2Ord(2024, 3, 11)) }
    \cup
    { SemesterConfig(sem, << >>, c, d) :
        sem \in { <<Ymd2Ord(2024, 1, 8), Ymd2Ord(2024, 1, 21)>> },
        c \in {CoursesOneToken, CoursesThreeTokens}, d \in Spreads }

NotLoaded == [loaded |-> FALSE]

\* datetime.strptime(part.strip(), "%H:%M").time()
ParseTimeToken(part) == Hms(part[1], part[2], 0)

\* __init__, lines 87-113: the decoding of a configuration loaded from YAML.
\* Every term becomes the list of its parsed tokens, however many there are.
LoadSemesterConfig(doc) ==
    [ doc EXCEPT
        !.courses =
            [ c \in DOMAIN doc.courses |->
                [ doc.courses[c] EXCEPT
                    !.weekly_lab_schedule =
                        [ wd \in DOMAIN doc.courses[c].weekly_lab_schedule |->
                            [ i \in DOMAIN doc.courses[c].weekly_lab_schedule[wd] |->
                                [ j \in DOMAIN doc.courses[c].weekly_lab_schedule[wd][i] |->
                                    ParseTimeToken(doc.courses[c].weekly_lab_schedule[wd][i][j]) ] ] ] ] ] ]

-----------------------------------------------------------------------------
(* log_parser.py: log lines, the log format, the field transformations.    *)
(*                                                                         *)
(* A log line is the record of its parts: the timestamp text (whether it   *)
(* has the "%Y-%m-%d %H:%M:%S" shape, and the date and time it then        *)
(* spells), the last three digits of the host, whether the fixed           *)
(* "lightdm: pam_unix(lightdm:session): session" text is there, the        *)
(* action and the user.                                                    *)

Timestamp(fmt_ok, date, time) == [fmt_ok |-> fmt_ok, date |-> date, time |-> time]

LogLine(ts, computer_id, session_kw, action, user) ==
    [ datetime |-> ts, computer_id |-> computer_id, session_kw |-> session_kw,
      session_action |-> action, student_id |-> user ]

\* Faulty variant: every line is taken for a session line.
LogFormatMatchesAnyLine(line) == line.session_kw \/ ~line.session_kw

\* log_format_re.match(line): the line has the fixed text of a session line.
LogFormatMatches(line) == line.session_kw

\* match.groupdict(): the four named groups, as captured.
GroupDict(line) ==
    [ datetime |-> line.datetime, computer_id |-> line.computer_id,
      session_action |-> line.session_action, student_id |-> line.student_id ]

\* string.lower, on the identifiers of the model
Lower(str) ==
    CASE str = "BOB" -> "bob"
      [] str = "Monday" -> "monday"
      [] str = "Tuesday" -> "tuesday"
      [] OTHER -> str

\* The outcome of one pipeline step on one record: the record it yields,
\* nothing (the record was filtered out), or the exception it raises.
Yield(d) == [tag |-> "ok", rec |-> d, exc |-> ""]
Dropped == [tag |-> "dropped", rec |-> << >>, exc |-> ""]
Raise(exc) == [tag |-> "error", rec |-> << >>, exc |-> exc]

\* Whether a 'datetime' field still holds the text the log line had.
IsText(v) == "fmt_ok" \in DOMAIN v

\* d.pop(key) for every key of keys; all of them must be there.
remove_fields(d, keys) ==
    IF keys \subseteq DOMAIN d
    THEN Yield([k \in DOMAIN d \ keys |-> d[k]])
    ELSE Raise("KeyError")

\* d.update(new) after d.pop(key)
replace_field(d, key, new) ==
    IF key \in DOMAIN d
    THEN Yield([k \in (DOMAIN d \ {key}) \cup DOMAIN new |->
                    IF k \in DOMAIN new THEN new[k] ELSE d[k]])
    ELSE Raise("KeyError")

\* d[key] = value, where value is transform_function(d[key])
transform_field(d, key, value) ==
    IF key \in DOMAIN d THEN Yield([d EXCEPT ![key] = value]) ELSE Raise("KeyError")

\* _parse_datetime and _transform_datetime_field
\* (a timestamp that is not in the format raises ValueError).
_transform_datetime_field(d) ==
    IF "datetime" \notin DOMAIN d THEN Raise("KeyError")
    ELSE IF ~IsText(d.datetime) THEN Raise("TypeError")
    ELSE IF ~d.datetime.fmt_ok THEN Raise("ValueError")
    ELSE transform_field(d, "datetime",
            [date |-> d.datetime.date, time |-> d.datetime.time])

_transform_computer_id_field(d) ==
    IF "computer_id" \notin DOMAIN d THEN Raise("KeyError")
    ELSE transform_field(d, "computer_id", "s" \o d.computer_id)

_transform_student_id_field(d) ==
    IF "student_id" \notin DOMAIN d THEN Raise("KeyError")
    ELSE transform_field(d, "student_id", Lower(d.student_id))

\* StudentAuthLogParser.log_transformation_pipeline (the class attribute)
BasePipeline ==
    << "_transform_datetime_field", "_transform_computer_id_field",
       "_transform_student_id_field" >>

-----------------------------------------------------------------------------
(* analysis.py: the steps StudentAttendanceAnalysis adds.                  *)

_filter_logins(d) ==
    IF "session_action" \notin DOMAIN d THEN Raise("KeyError")
    ELSE IF d.session_action = "opened" THEN Yield(d) ELSE Dropped

\* The inner function of _apply_schedule_overrides: the first override, in
\* configuration order, whose completed_on is the date of dt gives the date.
RECURSIVE OverrideDatetimeFrom(_, _, _)
OverrideDatetimeFrom(overrides, i, dt) ==
    IF i > Len(overrides) THEN dt
    ELSE IF dt.date = overrides[i].completed_on
         THEN [date |-> overrides[i].holiday_date, time |-> dt.time]
         ELSE OverrideDatetimeFrom(overrides, i + 1, dt)

\* Faulty variant: the last matching override gives the date.
RECURSIVE OverrideDatetimeDownFrom(_, _, _)
OverrideDatetimeDownFrom(overrides, i, dt) ==
    IF i < 1 THEN dt
    ELSE IF dt.date = overrides[i].completed_on
         THEN [date |-> overrides[i].holiday_date, time |-> dt.time]
         ELSE OverrideDatetimeDownFrom(overrides, i - 1, dt)

OverrideDatetimeLastWins(overrides, dt) ==
    OverrideDatetimeDownFrom(overrides, Len(overrides), dt)

OverrideDatetime(overrides, dt) == OverrideDatetimeFrom(overrides, 1, dt)

\* It runs with the parser as self, and reads the semester_config the
\* constructor injected into the parser.
_apply_schedule_overrides(parser, d) ==
    IF "datetime" \notin DOMAIN d THEN Raise("KeyError")
    ELSE IF ~parser.has_semester_config \/ IsText(d.datetime)
    THEN Raise("AttributeError")
    ELSE transform_field(d, "datetime",
            OverrideDatetime(parser.semester_config.semester.schedule_overrides,
                             d.datetime))

_remove_unnecessary_fields(d) == remove_fields(d, {"computer_id", "session_action"})

_break_apart_datetime_field(d) ==
    IF "datetime" \notin DOMAIN d THEN Raise("KeyError")
    ELSE IF IsText(d.datetime) THEN Raise("AttributeError")
    ELSE replace_field(d, "datetime",
            [ year |-> YearOf(d.datetime.date),
              weeknumber |-> weeknumber(d.datetime.date),
              weekday |-> IsoWeekday(d.datetime.date),
              date |-> d.datetime.date,
              time |-> d.datetime.time ])

\* StudentAttendanceAnalysis.extra_log_transformation_pipeline (class attribute)
ExtraPipeline ==
    << "_filter_logins", "_apply_schedule_overrides",
       "_remove_unnecessary_fields", "_break_apart_datetime_field" >>

\* The needs_semester_config decorator marks _apply_schedule_overrides only.
needs_semester_config(transformation) == transformation = "_apply_schedule_overrides"

\* transformation(self, parsed_log_lines), on one record
Transformation(name, parser, d) ==
    CASE name = "_transform_datetime_field" -> _transform_datetime_field(d)
      [] name = "_transform_computer_id_field" -> _transform_computer_id_field(d)
      [] name = "_transform_student_id_field" -> _transform_student_id_field(d)
      [] name = "_filter_logins" -> _filter_logins(d)
      [] name = "_apply_schedule_overrides" -> _apply_schedule_overrides(parser, d)
      [] name = "_remove_unnecessary_fields" -> _remove_unnecessary_fields(d)
      [] name = "_break_apart_datetime_field" -> _break_apart_datetime_field(d)

\* _transform_log_lines: the generators are chained, so one record goes
\* through every step in order before the next line is read.
RECURSIVE TransformFrom(_, _, _, _)
TransformFrom(pipeline, i, parser, d) ==
    IF i > Len(pipeline) THEN Yield(d)
    ELSE LET r == Transformation(pipeline[i], parser, d)
         IN  IF r.tag = "ok" THEN TransformFrom(pipeline, i + 1, parser, r.rec)
             ELSE r

\* A parser object: its instance attributes, when set.
FreshParser ==
    [ has_pipeline |-> FALSE, log_transformation_pipeline |-> << >>,
      has_semester_config |-> FALSE, semester_config |-> NotLoaded ]

\* parser.log_transformation_pipeline: the instance attribute, else the
\* class attribute.
PipelineOf(parser) ==
    IF parser.has_pipeline THEN parser.log_transformation_pipeline ELSE BasePipeline

_transform_log_lines(parser, d) == TransformFrom(PipelineOf(parser), 1, parser, d)

-----------------------------------------------------------------------------
(* StudentAttendanceAnalysis.__init__                                      *)

\* The override_log_transformation_pipeline argument: None, or a list.
NoOverride == [given |-> FALSE, steps |-> << >>]
OverrideWith(steps) == [given |-> TRUE, steps |-> steps]

\* The step lists callers pass as override_log_transformation_pipeline.
OverridePipelines ==
    { OverrideWith(<< "_transform_datetime_field", "_transform_student_id_field" >>),
      OverrideWith(<< "_transform_datetime_field", "_apply_schedule_overrides",
                      "_break_apart_datetime_field" >>) }

\* An object with no cached property yet (hasattr(self, ...) is false).
NoCache == [has |-> FALSE, value |-> << >>]

\* log_parser is 0 for None (a new parser object, kept in slot 0), or the
\* number of a parser object the caller holds.
__init__(log_parser, override) ==
    LET cfg == LoadSemesterConfig(semester_config_file)
        p0 == IF log_parser = 0 THEN FreshParser ELSE parsers[log_parser]
        truthy == override.given /\ Len(override.steps) > 0
        extra == IF truthy THEN << >> ELSE ExtraPipeline
        p1 == IF truthy
              THEN [p0 EXCEPT !.has_pipeline = TRUE,
                              !.log_transformation_pipeline = override.steps]
              ELSE p0
        new_pipeline == PipelineOf(p1) \o extra
        p2 == [p1 EXCEPT !.has_pipeline = TRUE,
                         !.log_transformation_pipeline = new_pipeline]
        someone_needs_semester_config ==
            \E i \in DOMAIN new_pipeline : needs_semester_config(new_pipeline[i])
        p3 == IF someone_needs_semester_config
              THEN [p2 EXCEPT !.has_semester_config = TRUE, !.semester_config = cfg]
              ELSE p2
    IN  /\ semester_config' = cfg
        /\ parsers' = [parsers EXCEPT ![log_parser] = p3]
        /\ analysis' = [ log_parser |-> log_parser,
                         extra_log_transformation_pipeline |-> extra,
                         override_log_transformation_pipeline |-> override ]
        /\ n_constructed' = n_constructed + 1
        /\ _weekday_terms' = NoCache
        /\ _semester_weeks' = NoCache

-----------------------------------------------------------------------------
(* The weekday_terms and semester_weeks properties                         *)

_weekday_list ==
    << "monday", "tuesday", "wednesday", "thursday", "friday", "saturday", "sunday" >>

_weekday_to_int(day) == CHOOSE num \in DOMAIN _weekday_list : _weekday_list[num] = day

\* The order in which a dict is iterated: some fixed order of its keys.
RECURSIVE DictOrder(_)
DictOrder(keys) ==
    IF keys = {} THEN << >>
    ELSE LET k == CHOOSE k \in keys : TRUE IN << k >> \o DictOrder(keys \ {k})

\* extra_settings.get('student_login_time_spread', timedelta(0))
login_time_spread(cfg) ==
    IF "extra_settings" \in DOMAIN cfg
       /\ "student_login_time_spread" \in DOMAIN cfg.extra_settings
    THEN cfg.extra_settings.student_login_time_spread
    ELSE 0

\* (datetime.combine(date=_cached_today, time=time) + delta).time()
add_time(time, delta) == (time + delta) % SecondsPerDay

\* expand_term_interval: the term itself with no spread; else the term is
\* unpacked into two times (ValueError when it has not two) and widened.
expand_term_interval(term, spread) ==
    IF spread = 0 THEN [exc |-> "", value |-> term]
    ELSE IF Len(term) /= 2 THEN [exc |-> "ValueError", value |-> << >>]
    ELSE [exc |-> "",
          value |-> << add_time(term[1], 0 - spread), add_time(term[2], spread) >>]

\* self._weekday_terms[weekday].extend(...): the entries are appended one by
\* one, so those before a term that raises stay in the list.
RECURSIVE ExtendTerms(_, _, _, _, _, _)
ExtendTerms(acc, weekday, course_name, terms, i, spread) ==
    IF i > Len(terms) THEN acc
    ELSE LET e == expand_term_interval(terms[i], spread)
         IN  IF e.exc /= "" THEN [acc EXCEPT !.exc = e.exc]
             ELSE ExtendTerms(
                    [acc EXCEPT !.value[weekday] = Append(@, << course_name >> \o e.value)],
                    weekday, course_name, terms, i + 1, spread)

\* The (course, weekday name) pairs in the order of the two nested loops.
RECURSIVE SchedulePairs(_, _)
SchedulePairs(courses, names) ==
    IF names = << >> THEN << >>
    ELSE LET days == DictOrder(DOMAIN courses[Head(names)].weekly_lab_schedule)
         IN  [ i \in 1..Len(days) |-> << Head(names), days[i] >> ]
                \o SchedulePairs(courses, Tail(names))

RECURSIVE BuildWeekdayTerms(_, _, _, _)
BuildWeekdayTerms(acc, courses, pairs, spread) ==
    IF pairs = << >> \/ acc.exc /= "" THEN acc
    ELSE LET course_name == Head(pairs)[1]
             weekday_name == Head(pairs)[2]
             weekday == _weekday_to_int(Lower(weekday_name))
             acc1 == IF weekday \in DOMAIN acc.value THEN acc
                     ELSE [acc EXCEPT !.value = @ @@ (weekday :> << >>)]
         IN  BuildWeekdayTerms(
                ExtendTerms(acc1, weekday, course_name,
                            courses[course_name].weekly_lab_schedule[weekday_name],
                            1, spread),
                courses, Tail(pairs), spread)

\* The weekday_terms property, computed from scratch:
\* [exc, value], value the weekday -> entries map built (up to the raise).
weekday_terms(cfg) ==
    BuildWeekdayTerms([exc |-> "", value |-> << >>], cfg.courses,
                      SchedulePairs(cfg.courses, DictOrder(DOMAIN cfg.courses)),
                      login_time_spread(cfg))

\* The loop of the semester_weeks property.
RECURSIVE WeeksFrom(_, _)
WeeksFrom(start, end) ==
    IF start <= end
    THEN << << YearOf(start), weeknumber(start) >> >> \o WeeksFrom(start + 7, end)
    ELSE << >>

semester_weeks(cfg) == WeeksFrom(cfg.semester.start_date, cfg.semester.end_date)

\* Python's order on pairs.
TupleLess(a, b) == a[1] < b[1] \/ (a[1] = b[1] /\ a[2] < b[2])

\* bisect.bisect_left(a, x), with Python's 0-based positions.
RECURSIVE BisectLeftFrom(_, _, _, _)
BisectLeftFrom(a, x, lo, hi) ==
    IF lo < hi
    THEN LET mid == (lo + hi) \div 2
         IN  IF TupleLess(a[mid + 1], x)
             THEN BisectLeftFrom(a, x, mid + 1, hi)
             ELSE BisectLeftFrom(a, x, lo, mid)
    ELSE lo

bisect_left(a, x) == BisectLeftFrom(a, x, 0, Len(a))

_init_attendance_list(weeks) == [ i \in 1..Len(weeks) |-> 0 ]

_get_attendance_list_index(weeks, login) ==
    bisect_left(weeks, << login.year, login.weeknumber >>)

-----------------------------------------------------------------------------
(* StudentAttendanceAnalysis.analyze                                       *)

\* semester_start_date <= login['date'] <= semester_end_date
InSemester(cfg, date) ==
    cfg.semester.start_date <= date /\ date <= cfg.semester.end_date

\* Faulty variant: the end of a term is excluded.
InTermEndExcluded(start_time, time, end_time) == start_time <= time /\ time < end_time

\* start_time <= login['time'] <= end_time
InTerm(start_time, time, end_time) == start_time <= time /\ time <= end_time

\* Faulty variant: the slot counts the logins.
SetSlotCounting(attendance_list, index) == [attendance_list EXCEPT ![index + 1] = @ + 1]

\* attendance_list[index] = 1
SetSlot(attendance_list, index) == [attendance_list EXCEPT ![index + 1] = 1]

\* student_attendance[course_name][student_id]: the defaultdict makes the
\* all-zero list of a student it has not seen.
WithStudent(sa, course_name, student_id, weeks) ==
    IF student_id \in DOMAIN sa[course_name] THEN sa
    ELSE [sa EXCEPT ![course_name] = @ @@ (student_id :> _init_attendance_list(weeks))]

\* The inner loop of analyze() for one login, from entry i on.
\* st is [sa, exc]: the attendance so far and the exception raised, if any.
RECURSIVE MarkFrom(_, _, _, _, _, _)
MarkFrom(st, entries, i, login, cfg, weeks) ==
    IF i > Len(entries) THEN st
    ELSE IF Len(entries[i]) /= 3 THEN [st EXCEPT !.exc = "ValueError"]
    ELSE LET course_name == entries[i][1]
             start_time == entries[i][2]
             end_time == entries[i][3]
         IN  IF InSemester(cfg, login.date) /\ InTerm(start_time, login.time, end_time)
             THEN LET sa1 == WithStudent(st.sa, course_name, login.student_id, weeks)
                      index == _get_attendance_list_index(weeks, login)
                  IN  IF index >= Len(weeks)
                      THEN [sa |-> sa1, exc |-> "IndexError"]
                      ELSE MarkFrom(
                             [st EXCEPT !.sa =
                                [sa1 EXCEPT ![course_name][login.student_id] =
                                    SetSlot(@, index)]],
                             entries, i + 1, login, cfg, weeks)
             ELSE MarkFrom(st, entries, i + 1, login, cfg, weeks)

LoginKeys == {"student_id", "year", "weeknumber", "weekday", "date", "time"}

\* self.weekday_terms.get(login['weekday'], [])
TermsOn(terms, weekday) == IF weekday \in DOMAIN terms THEN terms[weekday] ELSE << >>

\* Whether the loop body reaches line 216 for this login (and so reads
\* semester_weeks).
ReachesMark(entries, login, cfg) ==
    \E i \in DOMAIN entries :
        /\ \A j \in 1..i : Len(entries[j]) = 3
        /\ InSemester(cfg, login.date)
        /\ InTerm(entries[i][2], login.time, entries[i][3])

RECURSIVE Sum(_)
Sum(list) == IF list = << >> THEN 0 ELSE Head(list) + Sum(Tail(list))

\* sorted(): the student ids of the model in string order.
StudentOrder == << "BOB", "alice", "bob" >>

\* report_fields: 'student id', 'week 01' .. 'week NN', 'total'
report_fields(weeks) ==
    << "student id" >> \o [ idx \in 1..Len(weeks) |-> << "week", idx >> ] \o << "total" >>

\* The rows of one sheet: [student] + attendance_list + [sum(attendance_list)],
\* in sorted order of the students.
RECURSIVE Rows(_, _)
Rows(students, order) ==
    IF order = << >> THEN << >>
    ELSE (IF Head(order) \in DOMAIN students
          THEN << << Head(order) >> \o students[Head(order)]
                    \o << Sum(students[Head(order)]) >> >>
          ELSE << >>)
         \o Rows(students, Tail(order))

Databook(sa, cfg, weeks) ==
    [ course_name \in DOMAIN sa |->
        [ title |-> course_name,
          teacher |-> cfg.courses[course_name].teacher,
          headers |-> report_fields(weeks),
          rows |-> Rows(sa[course_name], StudentOrder) ] ]

-----------------------------------------------------------------------------
(* The log lines of the model                                              *)

Students == {"alice", "BOB"}

Mondays(doc) ==
    { n \in (doc.semester.start_date - 1)..(doc.semester.end_date + 1) : IsoWeekday(n) = 1 }

Tuesdays(doc) ==
    { n \in (doc.semester.start_date - 1)..(doc.semester.end_date + 1) : IsoWeekday(n) = 2 }

\* The first Monday after the first day of the semester.
ProbeMonday(doc) ==
    CHOOSE n \in Mondays(doc) :
        /\ n > doc.semester.start_date
        /\ \A m \in Mondays(doc) : m > doc.semester.start_date => n <= m

\* The timestamps logins are tried at. Both students: every Monday from the
\* day before the semester to the day after it at 10:00:00 (the end of one
\* Monday term, inside the other), every such Tuesday at 00:30:00 (inside
\* the Tuesday term). One student, on one Monday: at 08:54:00 and 08:56:00
\* (six and four minutes before a term) and at 00:30:00.
SharedTimestamps(doc) ==
    { Timestamp(TRUE, date, Hms(10, 0, 0)) : date \in Mondays(doc) }
    \cup { Timestamp(TRUE, date, Hms(0, 30, 0)) : date \in Tuesdays(doc) }

ProbeTimestamps(doc) ==
    { Timestamp(TRUE, ProbeMonday(doc), time) :
        time \in { Hms(8, 54, 0), Hms(8, 56, 0), Hms(0, 30, 0) } }

\* Session lines at these timestamps, one line of a closed session, a
\* session line whose timestamp is not in the format, and two lines that
\* are no session lines.
LogLines(doc) ==
    { LogLine(ts, "101", TRUE, "opened", user) :
        ts \in SharedTimestamps(doc), user \in Students }
    \cup
    { LogLine(ts, "101", TRUE, "opened", "alice") : ts \in ProbeTimestamps(doc) }
    \cup
    { LogLine(Timestamp(TRUE, ProbeMonday(doc), Hms(10, 0, 0)),
              "101", TRUE, "closed", "alice"),
      LogLine(Timestamp(FALSE, 0, 0), "101", TRUE, "opened", "alice") }
    \cup
    { LogLine(Timestamp(TRUE, ProbeMonday(doc), Hms(10, 0, 0)),
              "101", FALSE, "opened", user) : user \in Students }

-----------------------------------------------------------------------------
(* The state machine                                                       *)

Init ==
    /\ pc = "new"
    /\ semester_config_file \in ConfigFiles
    /\ semester_config = NotLoaded
    /\ parsers = [ p \in 0..NumParsers |-> FreshParser ]
    /\ analysis = [ log_parser |-> 0,
                    extra_log_transformation_pipeline |-> ExtraPipeline,
                    override_log_transformation_pipeline |-> NoOverride ]
    /\ n_constructed = 0
    /\ _weekday_terms = NoCache
    /\ _semester_weeks = NoCache
    /\ student_attendance = << >>
    /\ consumed = {}
    /\ n_read = 0
    /\ last_line = LogLine(Timestamp(FALSE, 0, 0), "", FALSE, "", "")
    /\ last_login = Dropped
    /\ diagnostics = << >>
    /\ error = ""
    /\ results = << >>

\* StudentAttendanceAnalysis(semester_config=<file>), as shell.py calls it:
\* no log_parser, no override.
Construct ==
    /\ pc = "new"
    /\ __init__(0, NoOverride)
    /\ pc' = "constructed"
    /\ UNCHANGED <<semester_config_file, student_attendance, consumed, n_read,
                   last_line, last_login, diagnostics, error, results>>

\* analyze(), lines 201-210: nothing is read from the log yet (the parser
\* returns generators); every course gets an empty defaultdict.
StartAnalyze ==
    /\ pc = "constructed"
    /\ pc' = "analyzing"
    /\ student_attendance' = [ c \in DOMAIN semester_config.courses |-> << >> ]
    /\ UNCHANGED <<semester_config_file, semester_config, parsers, analysis,
                   n_constructed, _weekday_terms, _semester_weeks, consumed, n_read,
                   last_line, last_login, diagnostics, error, results>>

\* One turn of `for login in parsed_log_lines`: the next line is read,
\* matched against the log format, sent through the pipeline and, when a
\* login comes out, through the loop body (lines 213-217).
ReadLine(line) ==
    /\ pc = "analyzing"
    /\ n_read < MaxLog
    /\ consumed' = consumed \cup {line}
    /\ n_read' = n_read + 1
    /\ last_line' = line
    /\ UNCHANGED <<semester_config_file, semester_config, parsers, analysis,
                   n_constructed, results>>
    /\ IF ~LogFormatMatches(line)
       THEN /\ diagnostics' = Append(diagnostics, line)
            /\ last_login' = Dropped
            /\ UNCHANGED <<pc, error, _weekday_terms, _semester_weeks, student_attendance>>
       ELSE
       LET r == _transform_log_lines(parsers[analysis.log_parser], GroupDict(line))
       IN  /\ last_login' = r
           /\ UNCHANGED diagnostics
           /\ IF r.tag = "dropped"
              THEN UNCHANGED <<pc, error, _weekday_terms, _semester_weeks,
                               student_attendance>>
              ELSE IF r.tag = "error"
              THEN /\ pc' = "failed"
                   /\ error' = r.exc
                   /\ UNCHANGED <<_weekday_terms, _semester_weeks, student_attendance>>
              ELSE IF ~(LoginKeys \subseteq DOMAIN r.rec)
              THEN /\ pc' = "failed"
                   /\ error' = "KeyError"
                   /\ UNCHANGED <<_weekday_terms, _semester_weeks, student_attendance>>
              ELSE
              LET login == r.rec
                  wt == IF _weekday_terms.has
                        THEN [exc |-> "", value |-> _weekday_terms.value]
                        ELSE weekday_terms(semester_config)
                  entries == TermsOn(wt.value, login.weekday)
                  weeks == IF _semester_weeks.has THEN _semester_weeks.value
                           ELSE semester_weeks(semester_config)
                  st == MarkFrom([sa |-> student_attendance, exc |-> ""],
                                 entries, 1, login, semester_config, weeks)
              IN  /\ _weekday_terms' = [has |-> TRUE, value |-> wt.value]
                  /\ IF wt.exc /= ""
                     THEN /\ pc' = "failed"
                          /\ error' = wt.exc
                          /\ UNCHANGED <<_semester_weeks, student_attendance>>
                     ELSE /\ student_attendance' = st.sa
                          /\ _semester_weeks' =
                                IF ReachesMark(entries, login, semester_config)
                                THEN [has |-> TRUE, value |-> weeks]
                                ELSE _semester_weeks
                          /\ IF st.exc /= ""
                             THEN pc' = "failed" /\ error' = st.exc
                             ELSE UNCHANGED <<pc, error>>

\* The log is exhausted: lines 219-233 build the Databook.
Finish ==
    /\ pc = "analyzing"
    /\ pc' = "done"
    /\ LET weeks == IF _semester_weeks.has THEN _semester_weeks.value
                    ELSE semester_weeks(semester_config)
       IN  /\ _semester_weeks' = [has |-> TRUE, value |-> weeks]
           /\ results' = Databook(student_attendance, semester_config, weeks)
    /\ UNCHANGED <<semester_config_file, semester_config, parsers, analysis,
                   n_constructed, _weekday_terms, student_attendance, consumed,
                   n_read, last_line, last_login, diagnostics, error>>

Next ==
    \/ Construct
    \/ StartAnalyze
    \/ \E line \in LogLines(semester_config_file) : ReadLine(line)
    \/ Finish

Spec == Init /\ [][Next]_vars

\* Constructors called in a row, on a new parser or on one the caller holds,
\* with or without an override pipeline.
ConstructAgain ==
    /\ n_constructed < MaxAnalyses
    /\ \E log_parser \in 0..NumParsers :
       \E override \in {NoOverride} \cup OverridePipelines :
            __init__(log_parser, override)
    /\ pc' = "constructed"
    /\ UNCHANGED <<semester_config_file, student_attendance, consumed, n_read,
                   last_line, last_login, diagnostics, error, results>>

PipelineSpec == Init /\ [][ConstructAgain]_vars

-----------------------------------------------------------------------------
(* Notions the properties below are stated with                            *)

\* The logins the pipeline of the analysis makes of a set of log lines.
TransformedEvents(lines) ==
    { r.rec : r \in { x \in { _transform_log_lines(parsers[analysis.log_parser],
                                                   GroupDict(line)) :
                                line \in { l \in lines : l.session_kw } } :
                      x.tag = "ok" } }

\* The value of slot w (0-based) of the attendance list of student s in
\* course c; a student the course has not seen has the all-zero list.
Slot(sa, c, s, w) == IF s \in DOMAIN sa[c] THEN sa[c][s][w + 1] ELSE 0

StudentIds == { Lower(user) : user \in Students }

\* What analyze() makes of one more line, given the attendance so far.
FeedLine(sa, line) ==
    IF ~LogFormatMatches(line) THEN sa
    ELSE LET r == _transform_log_lines(parsers[analysis.log_parser], GroupDict(line))
         IN  IF r.tag /= "ok" THEN sa
             ELSE MarkFrom([sa |-> sa, exc |-> ""],
                           TermsOn(weekday_terms(semester_config).value, r.rec.weekday),
                           1, r.rec, semester_config,
                           semester_weeks(semester_config)).sa

\* The attendance after feeding every line of a set once, in one fixed order.
RECURSIVE AnalyzeSet(_, _)
AnalyzeSet(sa, lines) ==
    IF lines = {} THEN sa
    ELSE LET line == CHOOSE l \in lines : TRUE
         IN  AnalyzeSet(FeedLine(sa, line), lines \ {line})

EmptyAttendance == [ c \in DOMAIN semester_config.courses |-> << >> ]

Running == pc \in {"analyzing", "done"}

-----------------------------------------------------------------------------
(* C1 *)

\* C1: while analyze() runs and when it is done, slot w of the attendance
\* list of student s in course c is 1 exactly when some login of s among the
\* lines read has a date within [start_date, end_date], falls within
\* [start, end] of an entry of c on its weekday, and is bucketed to w; a
\* login inside the entries of several courses counts in each of them.
C1_SlotIffMatchingLogin ==
    Running =>
        LET weeks == semester_weeks(semester_config)
            terms == weekday_terms(semester_config).value
        IN  \A c \in DOMAIN student_attendance :
            \A s \in StudentIds \cup DOMAIN student_attendance[c] :
            \A w \in 0..(Len(weeks) - 1) :
                (Slot(student_attendance, c, s, w) = 1)
                <=>
                (\E e \in TransformedEvents(consumed) :
                    /\ e.student_id = s
                    /\ semester_config.semester.start_date <= e.date
                    /\ e.date <= semester_config.semester.end_date
                    /\ \E i \in DOMAIN TermsOn(terms, e.weekday) :
                        LET entry == TermsOn(terms, e.weekday)[i]
                        IN  /\ Len(entry) = 3
                            /\ entry[1] = c
                            /\ entry[2] <= e.time
                            /\ e.time <= entry[3]
                    /\ bisect_left(weeks, << e.year, e.weeknumber >>) = w)

\* One login, at the end of one Monday term and inside another, has set the
\* same slot in both courses.
C1_Witness ==
    /\ pc = "done"
    /\ n_read = 1
    /\ \E w \in 0..1 :
        /\ Slot(student_attendance, "CS101", "alice", w) = 1
        /\ Slot(student_attendance, "CS102", "alice", w) = 1

-----------------------------------------------------------------------------
(* C2, C3 *)

\* C2: the week index, once computed, is strictly increasing in the order on
\* pairs (so it holds no pair twice), and every attendance list has one slot
\* per entry of it.
C2_WeekIndexStrictlyIncreasing ==
    _semester_weeks.has =>
        /\ \A i, j \in DOMAIN _semester_weeks.value :
              i < j => TupleLess(_semester_weeks.value[i], _semester_weeks.value[j])
        /\ \A c \in DOMAIN student_attendance :
           \A s \in DOMAIN student_attendance[c] :
              Len(student_attendance[c][s]) = Len(_semester_weeks.value)

\* C3: entry i of the week index is the (ISO year, ISO week) of the date
\* 7 * (i - 1) days after the start of the semester, and a login carries the
\* ISO year and ISO week of its date.
C3_IsoYearAndWeek ==
    /\ _semester_weeks.has =>
          \A i \in DOMAIN _semester_weeks.value :
              _semester_weeks.value[i]
                  = IsoCalendar(semester_config.semester.start_date + 7 * (i - 1))
    /\ last_login.tag = "ok" =>
          << last_login.rec.year, last_login.rec.weeknumber >>
              = IsoCalendar(last_login.rec.date)

-----------------------------------------------------------------------------
(* C4 *)

\* Whether course c has a configured term [start, end] on the weekday with
\* start - d <= time <= end + d.
InWidenedTerm(c, weekday, time, d) ==
    \E name \in DOMAIN semester_config.courses[c].weekly_lab_schedule :
        /\ _weekday_to_int(Lower(name)) = weekday
        /\ \E i \in DOMAIN semester_config.courses[c].weekly_lab_schedule[name] :
            LET term == semester_config.courses[c].weekly_lab_schedule[name][i]
            IN  term[1] - d <= time /\ time <= term[2] + d

\* Whether the login falls within an entry of course c in weekday_terms, as
\* line 215 tests it.
InTermsOf(terms, c, weekday, time) ==
    \E i \in DOMAIN TermsOn(terms, weekday) :
        LET entry == TermsOn(terms, weekday)[i]
        IN  entry[1] = c /\ entry[2] <= time /\ time <= entry[3]

InCachedTerm(c, weekday, time) == InTermsOf(_weekday_terms.value, c, weekday, time)

\* C4: with login_time_spread d, a login at time t matches a course on its
\* weekday exactly when start - d <= t <= end + d for one of the configured
\* terms of the course, whatever the term and d; and a login of the semester
\* that so matches is entered in the course.
C4_SpreadWidensEveryInterval ==
    ( /\ Running
      /\ last_login.tag = "ok"
      /\ _weekday_terms.has
      /\ IsWellFormedCourses(semester_config_file.courses) )
    =>
    LET login == last_login.rec
        d == login_time_spread(semester_config)
    IN  \A c \in DOMAIN semester_config.courses :
            /\ InWidenedTerm(c, login.weekday, login.time, d)
                  <=> InCachedTerm(c, login.weekday, login.time)
            /\ ( /\ InWidenedTerm(c, login.weekday, login.time, d)
                 /\ semester_config.semester.start_date <= login.date
                 /\ login.date <= semester_config.semester.end_date )
               => login.student_id \in DOMAIN student_attendance[c]

-----------------------------------------------------------------------------
(* C5 *)

\* The date the claim gives a login of this line: the holiday_date of the
\* first override whose completed_on is the date of the line, else that date.
ClaimedDate(line) ==
    LET overrides == semester_config.semester.schedule_overrides
        hits == { i \in DOMAIN overrides :
                    overrides[i].completed_on = line.datetime.date }
    IN  IF hits = {} THEN line.datetime.date
        ELSE overrides[CHOOSE i \in hits : \A j \in hits : i <= j].holiday_date

C5_Step ==
    ( /\ pc = "analyzing"
      /\ n_read' = n_read + 1
      /\ last_line'.session_kw
      /\ last_line'.datetime.fmt_ok
      /\ last_line'.session_action = "opened" )
    =>
    LET line == last_line'
        date == ClaimedDate(line)
        in_semester == /\ semester_config.semester.start_date <= date
                       /\ date <= semester_config.semester.end_date
        weeks == semester_weeks(semester_config)
    IN  /\ last_login'.tag = "ok"
        /\ last_login'.rec =
              [ student_id |-> Lower(line.student_id),
                year |-> YearOf(date),
                weeknumber |-> IsoCalendar(date)[2],
                weekday |-> IsoWeekday(date),
                date |-> date,
                time |-> line.datetime.time ]
        /\ ~in_semester => student_attendance' = student_attendance
        /\ (in_semester /\ pc' = "analyzing") =>
              \A c \in DOMAIN semester_config.courses :
                  InTermsOf(_weekday_terms'.value, c, IsoWeekday(date), line.datetime.time)
                  => Slot(student_attendance', c, Lower(line.student_id),
                          bisect_left(weeks, << YearOf(date), IsoCalendar(date)[2] >>)) = 1

\* C5: a login gets the holiday_date of the first override, in configuration
\* order, whose completed_on is the date of its line, and keeps its time;
\* its year, week, weekday, the semester check and its slot all come from
\* that date; with no such override it keeps the date of its line.
C5_OverrideGivesHolidayDate == [][C5_Step]_vars

\* The example: a login of Monday 2024-03-18, completed_on 2024-03-18 with
\* holiday_date 2024-03-12, is a Tuesday login and is entered in the course
\* that has a Tuesday term.
C5_Witness ==
    /\ last_line.datetime.date = Ymd2Ord(2024, 3, 18)
    /\ last_login.tag = "ok"
    /\ last_login.rec.date = Ymd2Ord(2024, 3, 12)
    /\ last_login.rec.weekday = 2
    /\ Len(semester_config.semester.schedule_overrides) = 2
    /\ pc = "analyzing"
    /\ "alice" \in DOMAIN student_attendance["CS102"]
    /\ "alice" \notin DOMAIN student_attendance["CS101"]

-----------------------------------------------------------------------------
(* C6 *)

C6_Inv == Running => student_attendance = AnalyzeSet(EmptyAttendance, consumed)

C6_Step ==
    \A c \in DOMAIN student_attendance :
    \A s \in DOMAIN student_attendance[c] :
    \A w \in DOMAIN student_attendance[c][s] :
        student_attendance[c][s][w] = 1
        => ( /\ c \in DOMAIN student_attendance'
             /\ s \in DOMAIN student_attendance'[c]
             /\ student_attendance'[c][s][w] = 1 )

\* C6: the attendance is the one that feeding each distinct line read once,
\* in one fixed order, gives (so neither a repeated line nor the order of
\* the lines changes it), and a slot that is 1 stays 1.
C6_DependsOnlyOnTheSetOfLines == [](C6_Inv) /\ [][C6_Step]_vars

\* The same login line was read twice, and its slot is 1.
C6_Witness ==
    /\ pc = "done"
    /\ n_read = 2
    /\ Cardinality(consumed) = 1
    /\ \E c \in DOMAIN student_attendance :
       \E s \in DOMAIN student_attendance[c] : Sum(student_attendance[c][s]) = 1

-----------------------------------------------------------------------------
(* C7 *)

\* C7: with a schedule term that has not exactly two time tokens, the run
\* fails in the constructor: no analysis is constructed and no line is read.
C7_MalformedTermFailsAtLoad ==
    ~IsWellFormedCourses(semester_config_file.courses)
    => (pc \in {"new", "failed"} /\ n_read = 0)

-----------------------------------------------------------------------------
(* C8 *)

C8_Inv ==
    LET sa == AnalyzeSet(EmptyAttendance, { l \in consumed : l.session_kw })
    IN  /\ Running => student_attendance = sa
        /\ pc = "done" =>
              results = Databook(sa, semester_config, semester_weeks(semester_config))

C8_Step ==
    (pc = "analyzing" /\ n_read' = n_read + 1 /\ ~last_line'.session_kw)
    => /\ diagnostics' = Append(diagnostics, last_line')
       /\ last_login' = Dropped
       /\ student_attendance' = student_attendance
       /\ pc' = "analyzing"
       /\ error' = error

\* C8: a line that is no session line adds one diagnostic, yields no login,
\* changes no attendance list and leaves the run reading; the attendance and
\* the report are those of the lines read without such lines.
C8_UnknownLineIsSkipped == [](C8_Inv) /\ [][C8_Step]_vars

\* A line that is no session line was read, and a later login line was
\* entered in a course.
C8_Witness ==
    /\ pc = "done"
    /\ Len(diagnostics) = 1
    /\ last_login.tag = "ok"
    /\ last_login.rec.student_id \in DOMAIN student_attendance["CS101"]

-----------------------------------------------------------------------------
(* C9 *)

\* C9: after a constructor call, the pipeline of the parser of the analysis
\* is the three steps of the parser followed by the four steps of the
\* analysis, each once, whichever parser was passed; or, with an override
\* pipeline, exactly the steps passed.
C9_EffectivePipeline ==
    n_constructed > 0 =>
        PipelineOf(parsers[analysis.log_parser])
            = IF analysis.override_log_transformation_pipeline.given
              THEN analysis.override_log_transformation_pipeline.steps
              ELSE BasePipeline \o ExtraPipeline

-----------------------------------------------------------------------------
(* C10 *)

\* C10: no login raises IndexError, and the index of a login of the semester
\* that falls within a term is the position of the 7-day week of the
\* semester that holds its date.
C10_IndexIsTheSemesterWeek ==
    /\ error /= "IndexError"
    /\ ( /\ Running
         /\ last_login.tag = "ok"
         /\ _weekday_terms.has
         /\ InSemester(semester_config, last_login.rec.date)
         /\ \E c \in DOMAIN semester_config.courses :
               InCachedTerm(c, last_login.rec.weekday, last_login.rec.time) )
       => LET weeks == semester_weeks(semester_config)
              index == _get_attendance_list_index(weeks, last_login.rec)
          IN  /\ 0 <= index /\ index < Len(weeks)
              /\ index = (last_login.rec.date - semester_config.semester.start_date) \div 7

====
